---- MODULE Spec2Model ----
(***************************************************************************)
(* fortuner: find_files -> read_fortunes -> (filter | pick_fortune), as    *)
(* written in src/src/lib.rs.                                              *)
(*                                                                         *)
(* Strings are sequences of one-character strings, so that splitting into  *)
(* lines, joining, taking an extension and comparing paths are computed    *)
(* and not assumed.  A path is the string the program holds (a PathBuf);   *)
(* std::path compares and equates paths by their components.               *)
(***************************************************************************)
EXTENDS Integers, Sequences, FiniteSets, TLC

VARIABLES
    pc,        \* position of run: "find", "read", "select", "done", "failed"; "call" for the pick_fortune harness
    sources,   \* Config.sources: sequence of path strings
    pattern,   \* Config.pattern: NoPattern or a compiled pattern
    seed,      \* Config.seed: NoSeed or a number
    disk,      \* content of every regular file, by canonical path
    revDir,    \* whether read_dir lists a directory in reverse of the stored order
    files,     \* result of find_files
    fortunes,  \* result of read_fortunes
    out,       \* what run has printed so far, in program order
    result,    \* what run returned: "none" (still running), "Ok", "Err"
    threadRng, \* words drawn so far from the process-wide generator behind rand::thread_rng()
    picks      \* pick_fortune harness: the calls made so far with their answers

vars == <<pc, sources, pattern, seed, disk, revDir, files, fortunes, out, result, threadRng, picks>>

(***************************************************************************)
(* Bounds                                                                  *)
(***************************************************************************)
MaxSources == 3
MaxContent == 4
MaxFortunes == 3
MaxSeed == 2
MaxPicks == 3
MaxRunSources == 2
MaxRedraws == 1

(***************************************************************************)
(* Characters and strings                                                  *)
(***************************************************************************)
Code(c) ==
    CASE c = "\n" -> 10 [] c = "\r" -> 13 [] c = "%" -> 37 [] c = "." -> 46 [] c = "/" -> 47
      [] c = "A" -> 65 [] c = "B" -> 66 [] c = "D" -> 68 [] c = "T" -> 84
      [] c = "a" -> 97 [] c = "b" -> 98 [] c = "d" -> 100 [] c = "e" -> 101
      [] c = "j" -> 106 [] c = "q" -> 113 [] c = "s" -> 115 [] c = "t" -> 116
      [] c = "u" -> 117 [] c = "x" -> 120

RECURSIVE StrLess(_, _)
\* Ord for byte strings: lexicographic, a proper prefix first.
StrLess(a, b) ==
    IF b = <<>> THEN FALSE
    ELSE IF a = <<>> THEN TRUE
    ELSE IF Head(a) = Head(b) THEN StrLess(Tail(a), Tail(b))
    ELSE Code(Head(a)) < Code(Head(b))

RECURSIVE Split(_, _)
\* The segments of s between occurrences of sep, empty ones included.
Split(s, sep) ==
    IF s = <<>> THEN << <<>> >>
    ELSE LET rest == Split(Tail(s), sep)
         IN  IF Head(s) = sep THEN << <<>> >> \o rest
             ELSE << <<Head(s)>> \o Head(rest) >> \o Tail(rest)

RECURSIVE Flatten(_)
Flatten(ss) == IF ss = <<>> THEN <<>> ELSE Head(ss) \o Flatten(Tail(ss))

Range(s) == { s[i] : i \in DOMAIN s }

Last(s) == s[Len(s)]

(***************************************************************************)
(* std::path: components, ordering, equality, file_name, extension, join   *)
(***************************************************************************)
Comp(kind, name) == [kind |-> kind, name |-> name]

\* Path::components: empty segments and non-leading "." are dropped.
Components(s) ==
    LET segs == Split(s, "/")
        abs  == s # <<>> /\ Head(s) = "/"
        keep(i) == /\ segs[i] # <<>>
                   /\ (segs[i] = <<".">> => (i = 1 /\ ~abs))
        idx  == SelectSeq([i \in 1..Len(segs) |-> i], keep)
        one(seg) == IF seg = <<".">> THEN Comp("CurDir", <<>>)
                    ELSE IF seg = <<".", ".">> THEN Comp("ParentDir", <<>>)
                    ELSE Comp("Normal", seg)
    IN  (IF abs THEN << Comp("RootDir", <<>>) >> ELSE <<>>)
        \o [k \in 1..Len(idx) |-> one(segs[idx[k]])]

\* #[derive(Ord)] on enum Component: the variants in declaration order.
KindRank(k) ==
    CASE k = "RootDir" -> 1 [] k = "CurDir" -> 2 [] k = "ParentDir" -> 3 [] k = "Normal" -> 4

CompLess(a, b) ==
    \/ KindRank(a.kind) < KindRank(b.kind)
    \/ a.kind = "Normal" /\ b.kind = "Normal" /\ StrLess(a.name, b.name)

RECURSIVE CompsLess(_, _)
CompsLess(a, b) ==
    IF b = <<>> THEN FALSE
    ELSE IF a = <<>> THEN TRUE
    ELSE IF Head(a) = Head(b) THEN CompsLess(Tail(a), Tail(b))
    ELSE CompLess(Head(a), Head(b))

\* impl Ord for Path, impl PartialEq for Path: by components.
PathLess(p, q) == CompsLess(Components(p), Components(q))
PathEq(p, q) == Components(p) = Components(q)

\* Path::file_name: the last component when it is a normal one.
HasFileName(p) == Components(p) # <<>> /\ Last(Components(p)).kind = "Normal"
FileName(p) == Last(Components(p)).name

\* Option<T>, for the strings that may be absent.
Some(v) == [some |-> TRUE, val |-> v]
None == [some |-> FALSE, val |-> <<>>]

\* Path::extension: None without a file name, without a dot, or when the only
\* dot is the first character; else what follows the last dot.
\* Variant: the extension with its letters in lower case.
ExtensionAnyCase(p) ==
    IF ~HasFileName(p) THEN None
    ELSE LET n == FileName(p)
             dots == { i \in DOMAIN n : n[i] = "." }
             lower(c) == IF c = "D" THEN "d" ELSE IF c = "A" THEN "a"
                         ELSE IF c = "T" THEN "t" ELSE c
         IN  IF dots = {} THEN None
             ELSE LET k == CHOOSE i \in dots : \A m \in dots : m <= i
                  IN  IF k = 1 THEN None
                      ELSE Some([i \in 1..(Len(n) - k) |-> lower(n[k + i])])
Extension(p) ==
    IF ~HasFileName(p) THEN None
    ELSE LET n == FileName(p)
             dots == { i \in DOMAIN n : n[i] = "." }
         IN  IF dots = {} THEN None
             ELSE LET k == CHOOSE i \in dots : \A m \in dots : m <= i
                  IN  IF k = 1 THEN None ELSE Some(SubSeq(n, k + 1, Len(n)))

\* Path::join with a relative name: a separator unless the path ends with one.
Join(p, name) ==
    IF p # <<>> /\ Last(p) = "/" THEN p \o name ELSE p \o <<"/">> \o name

(***************************************************************************)
(* The file system the program runs on.  Nodes are named by their          *)
(* canonical path, a sequence of names.                                    *)
(*                                                                         *)
(*   d/            directory, listed as  s.DAT, j.dat, s, j                *)
(*   d/j           file                                                    *)
(*   d/j.dat       file                                                    *)
(*   d/s.DAT       file                                                    *)
(*   d/s/          directory, listed as  q, .dat                           *)
(*   d/s/.dat      file                                                    *)
(*   d/s/q         file                                                    *)
(*   e/            directory that cannot be listed                         *)
(*   e/x           file                                                    *)
(*   u             file that cannot be opened                              *)
(***************************************************************************)
n_d == <<"d">>
n_e == <<"e">>
n_u == <<"u">>
n_x == <<"x">>
n_j == <<"j">>
n_s == <<"s">>
n_q == <<"q">>
n_jdat == <<"j", ".", "d", "a", "t">>
n_sDAT == <<"s", ".", "D", "A", "T">>
n_dotdat == <<".", "d", "a", "t">>

Dir(listable, children) == [kind |-> "dir", ok |-> listable, children |-> children]
RegFile(openable) == [kind |-> "file", ok |-> openable, children |-> <<>>]

Tree ==
    ( << n_d >>            :> Dir(TRUE, << n_sDAT, n_jdat, n_s, n_j >>) ) @@
    ( << n_d, n_j >>       :> RegFile(TRUE) ) @@
    ( << n_d, n_jdat >>    :> RegFile(TRUE) ) @@
    ( << n_d, n_sDAT >>    :> RegFile(TRUE) ) @@
    ( << n_d, n_s >>       :> Dir(TRUE, << n_q, n_dotdat >>) ) @@
    ( << n_d, n_s, n_dotdat >> :> RegFile(TRUE) ) @@
    ( << n_d, n_s, n_q >>  :> RegFile(TRUE) ) @@
    ( << n_e >>            :> Dir(FALSE, << n_x >>) ) @@
    ( << n_e, n_x >>       :> RegFile(TRUE) ) @@
    ( << n_u >>            :> RegFile(FALSE) )

FileNodes == { c \in DOMAIN Tree : Tree[c].kind = "file" }

\* The node a path string names: "." components name the directory itself.
Canon(p) ==
    LET cs == SelectSeq(Components(p), LAMBDA c : c.kind = "Normal")
    IN  [i \in 1..Len(cs) |-> cs[i].name]

\* fs::metadata(path) succeeds: the node exists and every directory on the way
\* to it can be searched.
MetadataOk(p) ==
    LET c == Canon(p)
    IN  /\ c \in DOMAIN Tree
        /\ \A k \in 1..(Len(c) - 1) : Tree[SubSeq(c, 1, k)].ok

\* File::open(path) succeeds.
OpenOk(p) == MetadataOk(p) /\ Tree[Canon(p)].kind = "file" /\ Tree[Canon(p)].ok

\* The paths the command line may name.
s_d == <<"d">>
s_dotd == <<".", "/", "d">>
s_dj == <<"d", "/", "j">>
s_djdat == <<"d", "/", "j", ".", "d", "a", "t">>
s_ds == <<"d", "/", "s">>
s_dsq == <<"d", "/", "s", "/", "q">>
s_e == <<"e">>
s_u == <<"u">>
s_x == <<"x">>

SourcePaths == { s_d, s_dotd, s_dj, s_djdat, s_ds, s_e, s_u, s_x }

Reverse(s) == [i \in 1..Len(s) |-> s[Len(s) + 1 - i]]

SeqsUpTo(S, n) == UNION { [1..k -> S] : k \in 0..n }

(***************************************************************************)
(* find_files                                                              *)
(***************************************************************************)
\* Result<Vec<T>>: an Err carries the path it names and no list.
Ok(v) == [ok |-> TRUE, val |-> v, err |-> <<>>]
Err(e) == [ok |-> FALSE, val |-> <<>>, err |-> e]

\* The closure of the filter at lib.rs:102-104.
\* Variant: the comparison with "dat" ignores case.
KeepEntryAnyCase(p, canon) ==
    Tree[canon].kind = "file" /\ ExtensionAnyCase(p) # Some(<<"d", "a", "t">>)
KeepEntry(p, canon) ==
    Tree[canon].kind = "file" /\ Extension(p) # Some(<<"d", "a", "t">>)

RECURSIVE WalkFrom(_, _, _)
\* WalkDir::new(root).into_iter().filter_map(Result::ok).filter(..).map(path):
\* the entry itself, then, for a directory that can be listed, its entries in
\* read_dir order, depth first.  An entry that cannot be read is an Err item,
\* which filter_map drops.
WalkFrom(p, canon, rev) ==
    LET node == Tree[canon]
        kids == IF rev THEN Reverse(node.children) ELSE node.children
        self == IF KeepEntry(p, canon) THEN << p >> ELSE <<>>
    IN  IF node.kind = "dir" /\ node.ok
        THEN self \o Flatten([i \in 1..Len(kids) |->
                                 WalkFrom(Join(p, kids[i]), canon \o << kids[i] >>, rev)])
        ELSE self

Walk(root, rev) == WalkFrom(root, Canon(root), rev)

RECURSIVE InsertSorted(_, _)
InsertSorted(x, s) ==
    IF s = <<>> THEN << x >>
    ELSE IF PathLess(x, Head(s)) THEN << x >> \o s
    ELSE << Head(s) >> \o InsertSorted(x, Tail(s))

RECURSIVE SortPaths(_)
\* Vec<PathBuf>::sort: stable, by Ord for PathBuf.
SortPaths(s) ==
    IF s = <<>> THEN <<>>
    ELSE InsertSorted(Last(s), SortPaths(SubSeq(s, 1, Len(s) - 1)))

\* Variant: dedup left out.
DedupNone(s) == s

RECURSIVE Dedup(_)
\* Vec::dedup: of each run of consecutive equal elements the first is kept.
Dedup(s) ==
    IF Len(s) < 2 THEN s
    ELSE IF PathEq(s[1], s[2]) THEN Dedup(<< s[1] >> \o SubSeq(s, 3, Len(s)))
    ELSE << s[1] >> \o Dedup(Tail(s))

RECURSIVE CollectSkipMissing(_, _, _)
\* Variant: a path whose metadata cannot be read is passed over.
CollectSkipMissing(paths, acc, rev) ==
    IF paths = <<>> THEN Ok(acc)
    ELSE IF ~MetadataOk(Head(paths)) THEN CollectSkipMissing(Tail(paths), acc, rev)
    ELSE CollectSkipMissing(Tail(paths), acc \o Walk(Head(paths), rev), rev)

RECURSIVE Collect(_, _, _)
\* The loop at lib.rs:95-108: the first path whose metadata cannot be read
\* ends the function with an error naming it.
Collect(paths, acc, rev) ==
    IF paths = <<>> THEN Ok(acc)
    ELSE IF ~MetadataOk(Head(paths)) THEN Err(Head(paths))
    ELSE Collect(Tail(paths), acc \o Walk(Head(paths), rev), rev)

find_files(paths, rev) ==
    LET got == Collect(paths, <<>>, rev)
    IN  IF got.ok THEN Ok(Dedup(SortPaths(got.val))) ELSE got

(***************************************************************************)
(* read_fortunes                                                           *)
(***************************************************************************)
Fortune(source, text) == [source |-> source, text |-> text]

\* BufRead::lines: the content cut after every "\n"; the "\n", and a "\r"
\* right before it, are not part of the line; what follows the last "\n" is a
\* line when it is not empty.
Lines(content) ==
    LET segs == Split(content, "\n")
        n    == Len(segs)
        strip(l) == IF l # <<>> /\ Last(l) = "\r" THEN SubSeq(l, 1, Len(l) - 1) ELSE l
        full == [i \in 1..(n - 1) |-> strip(segs[i])]
    IN  IF segs[n] = <<>> THEN full ELSE full \o << segs[n] >>

RECURSIVE JoinLines(_)
\* [String]::join("\n")
JoinLines(buf) ==
    IF buf = <<>> THEN <<>>
    ELSE IF Len(buf) = 1 THEN buf[1]
    ELSE buf[1] \o <<"\n">> \o JoinLines(Tail(buf))

\* The parser's state between lines: the records pushed and the pending lines.
ParseState(fs, buf) == [fortunes |-> fs, buf |-> buf]

\* The closure at lib.rs:124-136, for one line.
EachLine(st, basename, line) ==
    IF line = <<"%">>
    THEN IF st.buf # <<>>
         THEN ParseState(Append(st.fortunes, Fortune(basename, JoinLines(st.buf))), <<>>)
         ELSE st
    ELSE ParseState(st.fortunes, Append(st.buf, line))

RECURSIVE EachLineAll(_, _, _)
EachLineAll(st, basename, lines) ==
    IF lines = <<>> THEN st
    ELSE EachLineAll(EachLine(st, basename, Head(lines)), basename, Tail(lines))

RECURSIVE ReadPathsSkipUnopenable(_, _, _)
\* Variant: a file that cannot be opened is passed over.
ReadPathsSkipUnopenable(paths, st, dsk) ==
    IF paths = <<>> THEN Ok(st.fortunes)
    ELSE IF ~OpenOk(Head(paths)) THEN ReadPathsSkipUnopenable(Tail(paths), st, dsk)
    ELSE ReadPathsSkipUnopenable(Tail(paths),
                   EachLineAll(st, FileName(Head(paths)), Lines(dsk[Canon(Head(paths))])),
                   dsk)

RECURSIVE ReadPaths(_, _, _)
\* The loop at lib.rs:117-137.  buf is declared before the loop (lib.rs:116)
\* and is cleared only when a record is pushed, so the state that enters a
\* file is the state the file before it left.
ReadPaths(paths, st, dsk) ==
    IF paths = <<>> THEN Ok(st.fortunes)
    ELSE IF ~OpenOk(Head(paths)) THEN Err(Head(paths))
    ELSE ReadPaths(Tail(paths),
                   EachLineAll(st, FileName(Head(paths)), Lines(dsk[Canon(Head(paths))])),
                   dsk)

read_fortunes(paths, dsk) == ReadPaths(paths, ParseState(<<>>, <<>>), dsk)

(***************************************************************************)
(* File contents                                                           *)
(***************************************************************************)
c_j == <<"a", "\n", "%", "\n", "b", "\n", "%", "\n">>
c_q == <<"A", "\n", "%", "\n">>
c_dotdat == <<"b">>
c_sDAT == <<"%", "\n", "a", "b", "\n", "%">>
c_other == <<"x", "\n", "%", "\n">>

FixtureDisk ==
    ( << n_d, n_j >>       :> c_j ) @@
    ( << n_d, n_jdat >>    :> c_other ) @@
    ( << n_d, n_sDAT >>    :> c_sDAT ) @@
    ( << n_d, n_s, n_dotdat >> :> c_dotdat ) @@
    ( << n_d, n_s, n_q >>  :> c_q ) @@
    ( << n_e, n_x >>       :> c_other ) @@
    ( << n_u >>            :> c_other )

ContentChars == { "a", "%", "\n" }
Contents == SeqsUpTo(ContentChars, MaxContent)

(***************************************************************************)
(* Configuration                                                           *)
(***************************************************************************)
NoPattern == [some |-> FALSE, lit |-> <<>>, insensitive |-> FALSE]
Literal(lit, insensitive) == [some |-> TRUE, lit |-> lit, insensitive |-> insensitive]
NoSeed == [some |-> FALSE, val |-> 0]
Seed(n) == [some |-> TRUE, val |-> n]

Idle(p) ==
    /\ pc = p
    /\ files = Ok(<<>>)
    /\ fortunes = Ok(<<>>)
    /\ out = <<>>
    /\ result = "none"
    /\ picks = <<>>

(***************************************************************************)
(* Filter mode (lib.rs:65-80)                                              *)
(***************************************************************************)
Lower(c) == IF c = "A" THEN "a" ELSE IF c = "B" THEN "b" ELSE c

\* Regex::is_match for a pattern of literal characters: the pattern occurs
\* somewhere in the text; with case_insensitive, letters match in either case.
IsMatch(pat, text) ==
    LET fold(t) == IF pat.insensitive THEN [i \in 1..Len(t) |-> Lower(t[i])] ELSE t
        needle  == fold(pat.lit)
        hay     == fold(text)
    IN  \E i \in 0..(Len(hay) - Len(needle)) :
            SubSeq(hay, i + 1, i + Len(needle)) = needle

\* eprintln!("({})\n%", source) and println!("{}\n%", text)
Printed(stream, text) == [stream |-> stream, text |-> text]
Header(source) == Printed("stderr", <<"(">> \o source \o <<")", "\n", "%", "\n">>)
Body(text) == Printed("stdout", text \o <<"\n", "%", "\n">>)

FilterState(prev, printed) == [prev_source |-> prev, out |-> printed]

\* The closure of for_each at lib.rs:70-79, for one matching fortune.
\* Variant: the header is printed without looking at prev_source.
ForEachMatchAlwaysHeader(st, fortune) ==
    FilterState(Some(fortune.source),
                st.out \o << Header(fortune.source), Body(fortune.text) >>)
ForEachMatch(st, fortune) ==
    IF (~st.prev_source.some) \/ st.prev_source.val # fortune.source
    THEN FilterState(Some(fortune.source),
                     st.out \o << Header(fortune.source), Body(fortune.text) >>)
    ELSE FilterState(st.prev_source, st.out \o << Body(fortune.text) >>)

RECURSIVE ForEachAll(_, _)
ForEachAll(st, fs) ==
    IF fs = <<>> THEN st ELSE ForEachAll(ForEachMatch(st, Head(fs)), Tail(fs))

FilterOutput(fs, pat) ==
    ForEachAll(FilterState(None, <<>>), SelectSeq(fs, LAMBDA f : IsMatch(pat, f.text))).out

(***************************************************************************)
(* pick_fortune (lib.rs:141-149)                                           *)
(*                                                                         *)
(* A 32-bit word of a generator is written << high 16 bits, low 16 bits >>.*)
(***************************************************************************)
\* StdRng::seed_from_u64(seed): the first words of the ChaCha12 stream whose
\* key PCG32 expands from the seed, for the seeds 0..7.
StdRngWords ==
    ( 0 :> << <<52524, 28543>>, <<47914, 16306>>, <<36391, 27003>>, <<50689, 31892>>, <<53041, 2582>>, <<1693, 49410>>, <<44005, 63184>>, <<38283, 30237>> >> ) @@
    ( 1 :> << <<54064, 6241>>, <<63848, 6756>>, <<52237, 26954>>, <<45300, 53541>>, <<12872, 51674>>, <<28047, 49498>>, <<14180, 9683>>, <<11507, 13591>> >> ) @@
    ( 2 :> << <<5320, 48671>>, <<19485, 35761>>, <<60540, 43582>>, <<1150, 65>>, <<17816, 2751>>, <<30188, 1595>>, <<34857, 43650>>, <<32491, 21036>> >> ) @@
    ( 3 :> << <<42436, 55788>>, <<6239, 41278>>, <<64264, 31556>>, <<23100, 41366>>, <<9341, 56503>>, <<12048, 31494>>, <<46071, 43723>>, <<27950, 42396>> >> ) @@
    ( 4 :> << <<45500, 25572>>, <<34930, 58790>>, <<5479, 54527>>, <<43055, 2051>>, <<44094, 28261>>, <<37553, 36791>>, <<30332, 35423>>, <<38286, 3648>> >> ) @@
    ( 5 :> << <<11771, 6522>>, <<22421, 39433>>, <<11788, 49655>>, <<433, 47355>>, <<34284, 57561>>, <<29788, 3425>>, <<54481, 34728>>, <<42792, 36347>> >> ) @@
    ( 6 :> << <<7893, 47693>>, <<21935, 2228>>, <<47899, 55709>>, <<44734, 36333>>, <<57481, 11274>>, <<52748, 24544>>, <<21126, 51591>>, <<57215, 17320>> >> ) @@
    ( 7 :> << <<27304, 64446>>, <<1986, 57577>>, <<9342, 24454>>, <<20125, 13544>>, <<3979, 48333>>, <<9348, 12870>>, <<42719, 41113>>, <<35554, 26629>> >> )

\* rand::thread_rng(): a generator seeded from the system's entropy, so that
\* any word may come next; one word for each eighth of the range.
ThreadWords == { << k * 2^13, 0 >> : k \in 0..7 }

RECURSIVE BitLen(_)
BitLen(n) == IF n = 0 THEN 0 ELSE 1 + BitLen(n \div 2)

\* word.wmul(n): the 64-bit product as its high word and its low word.
WideMul(w, n) ==
    LET t == w[2] * n
        u == w[1] * n + t \div 2^16
    IN  [hi |-> u \div 2^16, lo |-> << u % 2^16, t % 2^16 >>]

\* (n << n.leading_zeros()) - 1
Zone(n) == << n * 2^(16 - BitLen(n)) - 1, 2^16 - 1 >>

WordLeq(a, b) == a[1] < b[1] \/ (a[1] = b[1] /\ a[2] <= b[2])

\* The test of the sampling loop: lo <= zone.
Accepted(w, n) == WordLeq(WideMul(w, n).lo, Zone(n))

RECURSIVE GenRange(_, _)
\* rng.gen_range(0..n) on the words ws the generator yields: the high word
\* of the first product whose low word is within the zone, and the number of
\* words drawn.
GenRange(ws, n) ==
    IF Accepted(Head(ws), n)
    THEN [index |-> WideMul(Head(ws), n).hi, drawn |-> 1]
    ELSE LET later == GenRange(Tail(ws), n)
         IN  [index |-> later.index, drawn |-> later.drawn + 1]

\* What the process-wide generator may yield to gen_range(0..n): words that
\* are drawn again, MaxRedraws of them at most, then a word that is accepted.
ThreadStreams(n) ==
    { [i \in 1..(r + 1) |-> IF i <= r THEN again ELSE w] :
        <<r, again, w>> \in (0..MaxRedraws)
                                \X { x \in ThreadWords : ~Accepted(x, n) }
                                \X { x \in ThreadWords : Accepted(x, n) } }

\* The answer, and the number of words drawn so far from the process-wide
\* generator.
Picked(answer, rng) == [answer |-> answer, rng |-> rng]

\* Variant: the process-wide generator is used whether or not a seed is given.
pick_fortune_shared_rng(fs, sd, trng) ==
    IF fs = <<>> THEN { Picked(None, trng) }
    ELSE { Picked(Some(fs[g.index + 1].text), trng + g.drawn) :
             g \in { GenRange(ws, Len(fs)) : ws \in ThreadStreams(Len(fs)) } }
\* Variant: the source of the chosen fortune is returned in place of its text.
pick_fortune_source(fs, sd, trng) ==
    IF fs = <<>> THEN { Picked(None, trng) }
    ELSE IF sd.some
    THEN { Picked(Some(fs[GenRange(StdRngWords[sd.val], Len(fs)).index + 1].source), trng) }
    ELSE { Picked(Some(fs[g.index + 1].source), trng + g.drawn) :
             g \in { GenRange(ws, Len(fs)) : ws \in ThreadStreams(Len(fs)) } }
\* The outcomes of pick_fortune: one with a seed, whose generator is built
\* from the seed alone; without, one for each stream of the process-wide
\* generator.  choose draws nothing from an empty slice.
pick_fortune(fs, sd, trng) ==
    IF fs = <<>> THEN { Picked(None, trng) }
    ELSE IF sd.some
    THEN { Picked(Some(fs[GenRange(StdRngWords[sd.val], Len(fs)).index + 1].text), trng) }
    ELSE { Picked(Some(fs[g.index + 1].text), trng + g.drawn) :
             g \in { GenRange(ws, Len(fs)) : ws \in ThreadStreams(Len(fs)) } }

NoFortunes == <<"N", "o", " ", "f", "o", "r", "t", "u", "n", "e", "s", " ", "f", "o", "u", "n", "d">>

\* One call of pick_fortune, as the log keeps it.
Call(sd, answer) == [seed |-> sd, answer |-> answer]

(***************************************************************************)
(* run, stage by stage                                                     *)
(***************************************************************************)
\* lib.rs:62
FindFiles ==
    /\ pc = "find"
    /\ files' = find_files(sources, revDir)
    /\ pc' = IF files'.ok THEN "read" ELSE "failed"
    /\ result' = IF files'.ok THEN result ELSE "Err"
    /\ UNCHANGED <<sources, pattern, seed, disk, revDir, fortunes, out, threadRng, picks>>

\* lib.rs:63
ReadFortunes ==
    /\ pc = "read"
    /\ fortunes' = read_fortunes(files.val, disk)
    /\ pc' = IF fortunes'.ok THEN "select" ELSE "failed"
    /\ result' = IF fortunes'.ok THEN result ELSE "Err"
    /\ UNCHANGED <<sources, pattern, seed, disk, revDir, files, out, threadRng, picks>>

(***************************************************************************)
(* find_files on its own: any list of paths of the command line            *)
(***************************************************************************)
InitFind ==
    /\ Idle("find")
    /\ sources \in SeqsUpTo(SourcePaths, MaxSources)
    /\ revDir \in BOOLEAN
    /\ pattern = NoPattern
    /\ seed = NoSeed
    /\ disk = FixtureDisk
    /\ threadRng = 0

SpecFind == InitFind /\ [][FindFiles]_vars

(***************************************************************************)
(* read_fortunes on its own: the lists find_files can return over the      *)
(* files d/j, d/s/q and u, with every content of the first two             *)
(***************************************************************************)
ReadLists ==
    { <<>>, << s_dj >>, << s_dsq >>, << s_u >>, << s_dj, s_dsq >>, << s_dj, s_u >>,
      << s_dsq, s_u >>, << s_dj, s_dsq, s_u >> }

InitRead ==
    /\ pc = "read"
    /\ \E l \in ReadLists :
          /\ files = Ok(l)
          /\ \E c1 \in (IF s_dj \in Range(l) THEN Contents ELSE { c_j }),
                c2 \in (IF s_dsq \in Range(l) THEN Contents ELSE { c_q }) :
                disk = [FixtureDisk EXCEPT ![Canon(s_dj)] = c1, ![Canon(s_dsq)] = c2]
    /\ sources = <<>>
    /\ revDir = FALSE
    /\ pattern = NoPattern
    /\ seed = NoSeed
    /\ fortunes = Ok(<<>>)
    /\ out = <<>>
    /\ result = "none"
    /\ picks = <<>>
    /\ threadRng = 0

SpecRead == InitRead /\ [][ReadFortunes]_vars

\* lib.rs:65-80
FilterFortunes ==
    /\ pc = "select"
    /\ pattern.some
    /\ out' = FilterOutput(fortunes.val, pattern)
    /\ pc' = "done"
    /\ result' = "Ok"
    /\ UNCHANGED <<sources, pattern, seed, disk, revDir, files, fortunes, threadRng, picks>>

\* lib.rs:81-87
PickAndPrint ==
    /\ pc = "select"
    /\ ~pattern.some
    /\ \E r \in pick_fortune(fortunes.val, seed, threadRng) :
           /\ picks' = Append(picks, Call(seed, r.answer))
           /\ threadRng' = r.rng
           /\ out' = << Printed("stdout",
                                (IF r.answer.some THEN r.answer.val ELSE NoFortunes)
                                    \o <<"\n">>) >>
    /\ pc' = "done"
    /\ result' = "Ok"
    /\ UNCHANGED <<sources, pattern, seed, disk, revDir, files, fortunes>>

(***************************************************************************)
(* The match of run on its own: any fortunes read_fortunes can return      *)
(***************************************************************************)
FortunePool ==
    { Fortune(n_j, <<"a">>), Fortune(n_j, <<"b">>),
      Fortune(n_q, <<"a">>), Fortune(n_q, <<"A", "b">>) }

Patterns ==
    { Literal(<<"a">>, FALSE), Literal(<<"a">>, TRUE), Literal(<<"x">>, FALSE) }

SeedOptions == { NoSeed } \cup { Seed(n) : n \in 0..MaxSeed }

InitSelect ==
    /\ pc = "select"
    /\ fortunes \in { Ok(fs) : fs \in SeqsUpTo(FortunePool, MaxFortunes) }
    /\ pattern \in Patterns \cup { NoPattern }
    /\ seed \in SeedOptions
    /\ threadRng = 0
    /\ sources = <<>>
    /\ revDir = FALSE
    /\ disk = FixtureDisk
    /\ files = Ok(<<>>)
    /\ out = <<>>
    /\ result = "none"
    /\ picks = <<>>

NextSelect == FilterFortunes \/ PickAndPrint

SpecSelect == InitSelect /\ [][NextSelect]_vars

(***************************************************************************)
(* pick_fortune called again and again over the same fortunes              *)
(***************************************************************************)
CallPick ==
    /\ pc = "call"
    /\ Len(picks) < MaxPicks
    /\ \E sd \in SeedOptions :
          \E r \in pick_fortune(fortunes.val, sd, threadRng) :
              /\ picks' = Append(picks, Call(sd, r.answer))
              /\ threadRng' = r.rng
    /\ UNCHANGED <<pc, sources, pattern, seed, disk, revDir, files, fortunes, out, result>>

PickPool ==
    { Fortune(n_j, <<"a">>), Fortune(n_j, <<"b">>), Fortune(n_q, <<"A", "b">>) }

InitPick ==
    /\ pc = "call"
    /\ fortunes \in { Ok(fs) : fs \in SeqsUpTo(PickPool, MaxFortunes) }
    /\ threadRng = 0
    /\ pattern = NoPattern
    /\ seed = NoSeed
    /\ sources = <<>>
    /\ revDir = FALSE
    /\ disk = FixtureDisk
    /\ files = Ok(<<>>)
    /\ out = <<>>
    /\ result = "none"
    /\ picks = <<>>

SpecPick == InitPick /\ [][CallPick]_vars

(***************************************************************************)
(* run as a whole, on the file system above                                *)
(***************************************************************************)
RunPaths == { s_d, s_dj, s_e, s_u, s_x }

Init ==
    /\ Idle("find")
    /\ sources \in SeqsUpTo(RunPaths, MaxRunSources)
    /\ revDir \in BOOLEAN
    /\ pattern \in { NoPattern, Literal(<<"a">>, TRUE) }
    /\ seed \in { NoSeed, Seed(1) }
    /\ threadRng = 0
    /\ disk = FixtureDisk

Next == FindFiles \/ ReadFortunes \/ FilterFortunes \/ PickAndPrint

Spec == Init /\ [][Next]_vars

(***************************************************************************)
(* Properties                                                              *)
(***************************************************************************)
Max(S) == CHOOSE x \in S : \A y \in S : y <= x

IsTerminator(line) == line = <<"%">>

\* The lines between the terminator at t and the terminator before it.
BlockBefore(lines, t) ==
    LET prev == { i \in 1..(t - 1) : IsTerminator(lines[i]) }
    IN  SubSeq(lines, IF prev = {} THEN 1 ELSE Max(prev) + 1, t - 1)

\* The terminator-closed blocks of at least one line, in order.
ClosedBlocks(lines) ==
    LET closes(i) == IsTerminator(lines[i]) /\ BlockBefore(lines, i) # <<>>
        idx == SelectSeq([i \in 1..Len(lines) |-> i], closes)
    IN  [k \in 1..Len(idx) |-> BlockBefore(lines, idx[k])]

RecordsOfFile(p, dsk) ==
    LET blocks == ClosedBlocks(Lines(dsk[Canon(p)]))
    IN  [k \in 1..Len(blocks) |-> Fortune(FileName(p), JoinLines(blocks[k]))]

ExpectedFortunes(paths, dsk) ==
    Flatten([i \in 1..Len(paths) |-> RecordsOfFile(paths[i], dsk)])

\* C1: read_fortunes returns, file after file, one record for each
\* terminator-closed non-empty block of the file, in the order of the file, its
\* source the file's base name and its text the block's lines joined by "\n".
C1_RecordsAreTheBlocksOfEachFile ==
    pc = "select" => fortunes.val = ExpectedFortunes(files.val, disk)

\* With one file at most there is no earlier file to inherit lines from, and
\* the records are the blocks.
ReadOneFileExact ==
    (pc = "select" /\ Len(files.val) <= 1)
        => fortunes.val = ExpectedFortunes(files.val, disk)

\* The content up to and including its last terminator line.
WithoutTrailingBlock(content) ==
    LET ls   == Lines(content)
        term == { i \in 1..Len(ls) : IsTerminator(ls[i]) }
        last == IF term = {} THEN 0 ELSE Max(term)
    IN  Flatten([i \in 1..last |-> ls[i] \o <<"\n">>])

\* C2: the lines after a file's last terminator line reach no record, of that
\* file or of a later one: the result is the one read_fortunes gives when
\* those lines are not in the files at all.
C2_TrailingBlockReachesNoRecord ==
    pc = "select" =>
        fortunes = read_fortunes(files.val,
                                 [c \in DOMAIN disk |-> WithoutTrailingBlock(disk[c])])

\* C5: no Fortune read_fortunes returns has an empty text.
C5_NoEmptyText ==
    pc = "select" => \A i \in DOMAIN fortunes.val : fortunes.val[i].text # <<>>

\* Ascending in the order of std::path: at the first component where two
\* paths differ, the earlier path has the lesser one, or has none.
PathBefore(p, q) ==
    LET a == Components(p)
        b == Components(q)
    IN  \E k \in 1..Len(b) :
            /\ \A i \in 1..(k - 1) : i <= Len(a) /\ a[i] = b[i]
            /\ \/ k = Len(a) + 1
               \/ k <= Len(a) /\ CompLess(a[k], b[k])

\* C3: what find_files returns is sorted ascending by path and holds no path
\* twice.
C3_SortedWithoutDuplicates ==
    pc = "read" =>
        \A i, j \in DOMAIN files.val :
            i < j => PathBefore(files.val[i], files.val[j]) /\ files.val[i] # files.val[j]

\* An input is repeated, overlaps another and is out of order, and the files
\* found are fewer than the walks yielded.
C3_Witness ==
    /\ pc = "read"
    /\ sources = << s_ds, s_d, s_ds >>
    /\ Len(files.val) = 4

Missing(p) == Canon(p) \notin DOMAIN Tree

\* C4: with a top-level path that does not exist, at whatever position,
\* find_files returns an error, which names the first such path, and no files.
C4_MissingPathFails ==
    (pc # "find" /\ \E i \in DOMAIN sources : Missing(sources[i])) =>
        /\ ~files.ok
        /\ files.val = <<>>
        /\ files.err = sources[CHOOSE i \in DOMAIN sources :
                                  /\ Missing(sources[i])
                                  /\ \A k \in 1..(i - 1) : ~Missing(sources[k])]
        /\ pc = "failed"
        /\ result = "Err"

\* The missing path comes last, after a directory and a file that exist.
C4_Witness ==
    /\ pc = "failed"
    /\ sources = << s_d, s_dj, s_x >>

IsDatName(name) ==
    Len(name) > 4 /\ SubSeq(name, Len(name) - 3, Len(name)) = <<".", "d", "a", "t">>

RECURSIVE JoinAll(_, _)
JoinAll(p, names) ==
    IF names = <<>> THEN p ELSE JoinAll(Join(p, Head(names)), Tail(names))

\* The regular files at or below the roots, every directory from the root
\* down to the file being one that can be listed, named root-first.
ExpectedFiles(roots) ==
    LET reach == { rc \in Range(roots) \X FileNodes :
                     LET r == Canon(rc[1])
                         c == rc[2]
                     IN  /\ Len(r) <= Len(c)
                         /\ SubSeq(c, 1, Len(r)) = r
                         /\ \A k \in Len(r)..(Len(c) - 1) : k >= 1 => Tree[SubSeq(c, 1, k)].ok
                         /\ ~IsDatName(Last(c)) }
    IN  { JoinAll(rc[1], SubSeq(rc[2], Len(Canon(rc[1])) + 1, Len(rc[2]))) : rc \in reach }

\* C9: when every input exists, find_files returns exactly the regular files
\* reachable under the roots whose extension is not "dat".
C9_ExactlyTheFilesNotDat ==
    pc = "read" => Range(files.val) = ExpectedFiles(sources)

\* A directory holding j.dat, .dat and s.DAT at two depths, and a root that is
\* itself a file.
C9_Witness ==
    /\ pc = "read"
    /\ sources = << s_d, s_u >>
    /\ Range(files.val) = { s_dj, s_dsq, s_u,
                            <<"d", "/", "s", "/", ".", "d", "a", "t">>,
                            <<"d", "/", "s", ".", "D", "A", "T">> }

Matching(fs, pat) == SelectSeq(fs, LAMBDA f : IsMatch(pat, f.text))

ShowsHeader(m, k) == k = 1 \/ m[k].source # m[k - 1].source

ExpectedFilterOutput(m) ==
    Flatten([k \in 1..Len(m) |->
                (IF ShowsHeader(m, k) THEN << Header(m[k].source) >> ELSE <<>>)
                    \o << Body(m[k].text) >>])

\* C6: in filter mode the output is, for each matching record in order, its
\* body, preceded by a header exactly when the record is the first match or
\* its source differs from the source of the match before it; nothing when no
\* record matches.
C6_HeaderPerRunOfSource ==
    (pc = "done" /\ pattern.some) =>
        /\ out = ExpectedFilterOutput(Matching(fortunes.val, pattern))
        /\ (Matching(fortunes.val, pattern) = <<>> => out = <<>>)

\* Two matches of one source, then a match of another: two headers, three
\* bodies.
C6_Witness ==
    /\ pc = "done"
    /\ pattern.some
    /\ Len(fortunes.val) = 3
    /\ fortunes.val[1].source = fortunes.val[2].source
    /\ fortunes.val[2].source # fortunes.val[3].source
    /\ Len(out) = 5
    /\ out[1].stream = "stderr" /\ out[4].stream = "stderr"

\* C7: two calls of pick_fortune with the same seed over the same fortunes
\* give the same answer, whatever was called in between.
C7_SeededPickRepeats ==
    \A i, j \in DOMAIN picks :
        (picks[i].seed.some /\ picks[i].seed = picks[j].seed)
            => picks[i].answer = picks[j].answer

\* Seed 1, then a call without seed that draws from the process-wide generator,
\* then seed 1 again, over fortunes of different texts.
C7_Witness ==
    /\ pc = "call"
    /\ Len(picks) = 3
    /\ picks[1].seed = Seed(1) /\ picks[2].seed = NoSeed /\ picks[3].seed = Seed(1)
    /\ Len(fortunes.val) = 3
    /\ Cardinality({ fortunes.val[i].text : i \in 1..3 }) = 3
    /\ picks[2].answer # picks[1].answer

\* C8: pick_fortune answers None exactly when there are no fortunes, and else
\* the text of a fortune of the sequence; run prints the answer, or "No
\* fortunes found" for None, and returns Ok.
C8_PickNoneIffEmpty ==
    (pc = "done" /\ ~pattern.some) =>
        /\ Len(picks) = 1
        /\ (picks[1].answer.some <=> fortunes.val # <<>>)
        /\ picks[1].answer.some =>
               \E i \in DOMAIN fortunes.val : fortunes.val[i].text = picks[1].answer.val
        /\ out = << Printed("stdout",
                            (IF fortunes.val = <<>> THEN NoFortunes ELSE picks[1].answer.val)
                                \o <<"\n">>) >>
        /\ result = "Ok"

\* No fortunes and no seed: the fallback text is printed.
C8_Witness ==
    /\ pc = "done"
    /\ ~pattern.some
    /\ ~seed.some
    /\ fortunes.val = <<>>
    /\ out = << Printed("stdout", NoFortunes \o <<"\n">>) >>

CannotOpen(p) == ~Tree[Canon(p)].ok

\* C10: run prints only once find_files and read_fortunes have both
\* succeeded; with a missing top-level path, or a found file that cannot be
\* opened, run ends with the error and has printed nothing.
C10_OutputOnlyAfterBothStages ==
    /\ out # <<>> =>
          /\ pc = "done"
          /\ result = "Ok"
          /\ files.ok /\ files = find_files(sources, revDir)
          /\ fortunes.ok /\ fortunes = read_fortunes(files.val, disk)
    /\ (\E i \in DOMAIN sources : Missing(sources[i])) =>
          /\ pc \in { "find", "failed" }
          /\ out = <<>>
          /\ pc = "failed" => result = "Err"
    /\ (\E i \in DOMAIN files.val : CannotOpen(files.val[i])) =>
          /\ pc \in { "read", "failed" }
          /\ out = <<>>
          /\ pc = "failed" => result = "Err"

\* The file that cannot be opened comes after files that were read.
C10_Witness ==
    /\ pc = "failed"
    /\ result = "Err"
    /\ files.ok
    /\ Len(files.val) = 5
    /\ CannotOpen(files.val[5])
    /\ out = <<>>
====
